---- MODULE Spec2Model ----
(***************************************************************************)
(* A model of the React hook useEmotionDetection                           *)
(* (src/src/components/emotion-detection/useEmotionDetection.tsx).         *)
(*                                                                         *)
(* The hook is a function component body: every render creates new         *)
(* closures (startAnalysis, processVideoFrame, updateTimer, ...) over the  *)
(* values the useState variables have in that render.  A callback handed   *)
(* to setTimeout / setInterval, and the continuation of an async function  *)
(* after an await, keep the closure of the render in which the call was    *)
(* made.  The model therefore records, with every pending startAnalysis    *)
(* invocation and every timer, the values of the state variables that the  *)
(* closure reads later (isAnalyzing, isProcessing, micPermission,          *)
(* currentEmotion).  useRef cells are shared by all renders and are read   *)
(* at their current value.  Functional updates (setX(prev => ...)) see the *)
(* current value.  A call made by the host (startAnalysis, stopAnalysis,   *)
(* setShowEmotionPopup) uses the closure of the latest render.             *)
(*                                                                         *)
(* Times are in milliseconds.  Timers fire exactly when they are due: time *)
(* does not advance past a due timer.  Asynchronous results (getUserMedia, *)
(* the classifier) arrive at any time.                                     *)
(***************************************************************************)
EXTENDS Integers, Sequences, FiniteSets

(***************************************************************************)
(* Program constants.                                                      *)
(***************************************************************************)
MinCallInterval == 1000
OneShotDelay == 1000
TickPeriod == 1000
PopupDelay == 8000
HistoryLimit == 12
TimerStart == 3
SeedScore == 800

\* Scores are in thousandths: 0.8 is 800, the band [0.7, 1.0) is 700..999.
ScoreBase == 700
ScoreWidth == 300

\* The label lists of the two synthetic generators, in source order.
dummyEmotions == <<"happy", "focused", "neutral", "confused", "sad", "stressed">>
forceDummyEmotions == <<"happy", "focused", "neutral", "confused", "sad", "stressed", "bored">>

\* null of a string-valued state variable, and of a handle-valued ref.
NoEmotion == "null"
NoHandle == 0

(***************************************************************************)
(* Bounds of the model.                                                    *)
(***************************************************************************)
\* time steps of the main and of the burst scenario (each HalfSecond ms)
MaxSteps == 4
\* half seconds in which the host calls startAnalysis and stopAnalysis
HostSteps == 2
\* half seconds within which getUserMedia and the classifier answer in the
\* burst scenario (one half second in the main scenario)
MaxWait == 2
\* startAnalysis invocations that may be awaiting a permission at once
MaxStarts == 2
\* calls of startAnalysis and of stopAnalysis in one behaviour of the main scenario
MaxStartCalls == 2
MaxStopCalls == 2
\* calls of startAnalysis in one behaviour of the burst scenario
BurstStarts == 3
\* classifier calls that may be outstanding at once
MaxCalls == 2
\* capture dispatches in one behaviour of the main scenario
MaxDispatch == 2
\* camera streams that may be live at once
MaxStreams == 2
\* resolution of Math.random(): its values are k / RandomGrain, k in 0..RandomGrain-1
RandomGrain == 40
\* dispatches and seconds of the history scenario
HistDispatch == 14
HistSeconds == 40
\* seconds of the popup scenario
PopupSeconds == 13
\* half seconds of the fallback scenario
FallbackSteps == 3
\* seconds of the stop scenario
StopSeconds == 10
\* seconds of the scenario with fair timers
LiveSeconds == 6

HalfSecond == MinCallInterval \div 2
\* Date.now() when the component mounts: any value at least MinCallInterval
\* above the initial lastApiCallTimeRef of 0 (epoch milliseconds are ~1.7e12).
MountTime == 10 * MinCallInterval

VARIABLES
  \* useState
  cameraPermission, micPermission, isAnalyzing, currentEmotion, emotionHistory,
  stressLevel, engagementLevel, focusLevel, lastDetectionTime,
  showEmotionPopup, popupEmotion, timerCount, isProcessing,
  \* useRef
  timerIntervalRef, videoRef, canvasRef, mediaStreamRef, popupTimeoutRef,
  lastApiCallTimeRef, abortControllerRef,
  \* the runtime around the hook
  now,          \* Date.now()
  mounted,      \* the component is mounted (state setters have an effect)
  intervals,    \* active setInterval timers: [id, due, cA, cP]
  oneShots,     \* pending setTimeout(processVideoFrame) timers, in creation order
  popupTimers,  \* pending popup auto-dismiss timeouts: [id, due]
  starts,       \* startAnalysis invocations awaiting a permission
  calls,        \* outstanding classifier calls: [id, aborted, at]
  liveStreams,  \* ids of camera streams acquired and not stopped
  env,          \* the scenario: the input sets and bounds of this behaviour
  hostCalls,    \* how often the host has called startAnalysis and stopAnalysis
  \* history variables of the verification
  recorded,     \* the events recorded since (and including) the latest seed
  attempts,     \* the timestamps of the dispatched captures
  popupTrigger, \* the latest popup trigger and the one before it
  last          \* the operation performed by the latest step

stateVars == <<cameraPermission, micPermission, isAnalyzing, currentEmotion,
               emotionHistory, stressLevel, engagementLevel, focusLevel,
               lastDetectionTime, showEmotionPopup, popupEmotion, timerCount,
               isProcessing>>
refVars == <<timerIntervalRef, videoRef, canvasRef, mediaStreamRef,
             popupTimeoutRef, lastApiCallTimeRef, abortControllerRef>>
runVars == <<now, mounted, intervals, oneShots, popupTimers, starts, calls,
             liveStreams, env, hostCalls>>
ghostVars == <<recorded, attempts, popupTrigger, last>>
vars == <<stateVars, refVars, runVars, ghostVars>>

(***************************************************************************)
(* Helpers.                                                                *)
(***************************************************************************)
Min(a, b) == IF a <= b THEN a ELSE b

\* the smallest handle not in use
FreshId(used) == CHOOSE i \in 1..(Cardinality(used) + 1) : i \notin used

\* a state setter: React ignores updates of an unmounted component
SetState(old, new) == IF mounted THEN new ELSE old

\* Math.random() is k / RandomGrain for a k in 0..RandomGrain-1; a scenario
\* draws from the subset env.draws of these
MathRandom == env.draws

\* the largest value of Math.random(); the smallest is 0
HighDraw == RandomGrain - 1

\* Math.floor(Math.random() * n)
FloorRandom(k, n) == (k * n) \div RandomGrain

\* a score drawn from a band that is too wide
RandomScoreWide(k) == ScoreBase + (k * (ScoreWidth + 100)) \div RandomGrain

\* 0.7 + Math.random() * 0.3, in thousandths
RandomScore(k) == ScoreBase + (k * ScoreWidth) \div RandomGrain

\* a history that is never cut
AppendNoSlice(prev, e) == Append(prev, e)

\* [...prev, e].slice(-12)
AppendEvent(prev, e) ==
  LET all == Append(prev, e)
      n == Len(all)
  IN IF n <= HistoryLimit THEN all ELSE SubSeq(all, n - HistoryLimit + 1, n)

(***************************************************************************)
(* updateMetricsBasedOnEmotion: three independent draws k1, k2, k3.        *)
(***************************************************************************)
StressFor(emotion, k) ==
  IF emotion = "stressed" THEN 75 + FloorRandom(k, 25)
  ELSE IF emotion = "confused" THEN 50 + FloorRandom(k, 25)
  ELSE IF emotion = "sad" THEN 60 + FloorRandom(k, 20)
  ELSE IF emotion = "neutral" THEN 20 + FloorRandom(k, 20)
  ELSE IF emotion = "focused" THEN 10 + FloorRandom(k, 15)
  ELSE IF emotion = "happy" THEN 5 + FloorRandom(k, 10)
  ELSE 15 + FloorRandom(k, 20)

EngagementFor(emotion, k) ==
  IF emotion = "focused" \/ emotion = "happy" THEN 80 + FloorRandom(k, 20)
  ELSE IF emotion = "neutral" THEN 50 + FloorRandom(k, 30)
  ELSE IF emotion = "sad" THEN 20 + FloorRandom(k, 30)
  ELSE IF emotion = "stressed" THEN 15 + FloorRandom(k, 25)
  ELSE 30 + FloorRandom(k, 40)

\* the focus without the branch for "stressed"
FocusWithoutStressed(emotion, k) ==
  IF emotion = "focused" THEN 85 + FloorRandom(k, 15)
  ELSE IF emotion = "happy" THEN 70 + FloorRandom(k, 20)
  ELSE IF emotion = "neutral" THEN 50 + FloorRandom(k, 20)
  ELSE IF emotion = "sad" THEN 20 + FloorRandom(k, 20)
  ELSE 30 + FloorRandom(k, 30)

FocusFor(emotion, k) ==
  IF emotion = "focused" THEN 85 + FloorRandom(k, 15)
  ELSE IF emotion = "happy" THEN 70 + FloorRandom(k, 20)
  ELSE IF emotion = "neutral" THEN 50 + FloorRandom(k, 20)
  ELSE IF emotion = "stressed" THEN 15 + FloorRandom(k, 20)
  ELSE IF emotion = "sad" THEN 20 + FloorRandom(k, 20)
  ELSE 30 + FloorRandom(k, 30)

updateMetricsBasedOnEmotion(emotion, k1, k2, k3) ==
  /\ stressLevel' = SetState(stressLevel, StressFor(emotion, k1))
  /\ engagementLevel' = SetState(engagementLevel, EngagementFor(emotion, k2))
  /\ focusLevel' = SetState(focusLevel, FocusFor(emotion, k3))

metricVars == <<stressLevel, engagementLevel, focusLevel>>
emotionVars == <<currentEmotion, emotionHistory, recorded>>
popupVars == <<showEmotionPopup, popupEmotion, popupTimeoutRef, popupTimers, popupTrigger>>
captureVars == <<isProcessing, abortControllerRef, calls, lastDetectionTime,
                 lastApiCallTimeRef, attempts>>
streamVars == <<mediaStreamRef, liveStreams>>
tickVars == <<timerIntervalRef, intervals>>
permVars == <<cameraPermission, micPermission>>
surfaceVars == <<videoRef, canvasRef>>
worldVars == <<now, mounted, env>>
idleVars == <<worldVars, hostCalls>>

Ids(set) == {x.id : x \in set}

Event(emotion, score) == [emotion |-> emotion, timestamp |-> now, score |-> score]

\* the latest step, for the statements about single operations; again: a
\* stopAnalysis that directly follows a stopAnalysis; tickAt: the time of the
\* latest run of updateTimer (0: none yet)
Did(op, outcome, cam) ==
  [op |-> op, outcome |-> outcome, cam |-> cam,
   again |-> (op = "stop" /\ last.op = "stop"),
   tickAt |-> IF op = "tick" THEN now ELSE last.tickAt]

(***************************************************************************)
(* Timers, streams and controllers of the browser.                         *)
(***************************************************************************)
\* window.clearTimeout(id) / clearInterval(id): the timer with that id, if pending
ClearTimer(timers, id) == {t \in timers : t.id # id}

\* track.stop() on every track of the stream the ref holds
StopTracks(live, ref) == live \ {ref}

\* abortControllerRef.current.abort(): the signal is handed to nobody, so the
\* call it was created for goes on; the controller is only marked
Abort(cs, ref) ==
  {IF c.id = ref THEN [c EXCEPT !.aborted = TRUE] ELSE c : c \in cs}

(***************************************************************************)
(* showEmotionalSupportPopup                                               *)
(***************************************************************************)
\* a trigger that leaves the pending auto-dismiss in place
PopupKeepsOld(timers, ref) == timers

\* lines 219-221: the auto-dismiss timers left pending by a new trigger
PopupPending(timers, ref) ==
  IF ref # NoHandle THEN ClearTimer(timers, ref) ELSE timers

showEmotionalSupportPopup(emotion) ==
  LET kept == PopupPending(popupTimers, popupTimeoutRef)
      id == FreshId(Ids(kept))
  IN /\ popupEmotion' = SetState(popupEmotion, emotion)
     /\ showEmotionPopup' = SetState(showEmotionPopup, TRUE)
     /\ popupTimers' = kept \cup {[id |-> id, due |-> now + PopupDelay]}
     /\ popupTimeoutRef' = id
     /\ popupTrigger' = [at |-> now, emotion |-> emotion, dismissed |-> FALSE,
                         prevAt |-> popupTrigger.at, prevEmotion |-> popupTrigger.emotion]

\* the setTimeout callback of showEmotionalSupportPopup
PopupTimeout(t) ==
  /\ t \in popupTimers
  /\ t.due = now
  /\ showEmotionPopup' = SetState(showEmotionPopup, FALSE)
  /\ popupTimeoutRef' = NoHandle
  /\ popupTimers' = popupTimers \ {t}
  /\ last' = Did("popupTimeout", "-", FALSE)
  /\ UNCHANGED <<popupEmotion, popupTrigger, recorded, attempts>>
  /\ UNCHANGED <<permVars, isAnalyzing, currentEmotion, emotionHistory, metricVars,
                 lastDetectionTime, timerCount, isProcessing, tickVars, surfaceVars,
                 streamVars, lastApiCallTimeRef, abortControllerRef, idleVars,
                 oneShots, starts, calls>>

\* the host hides the popup with the setShowEmotionPopup the hook returns
DismissPopup ==
  /\ mounted
  /\ "dismiss" \in env.host
  /\ showEmotionPopup
  /\ showEmotionPopup' = FALSE
  /\ popupTrigger' = [popupTrigger EXCEPT !.dismissed = TRUE]
  /\ last' = Did("dismiss", "-", FALSE)
  /\ UNCHANGED <<popupEmotion, popupTimeoutRef, popupTimers, recorded, attempts>>
  /\ UNCHANGED <<permVars, isAnalyzing, currentEmotion, emotionHistory, metricVars,
                 lastDetectionTime, timerCount, isProcessing, tickVars, surfaceVars,
                 streamVars, lastApiCallTimeRef, abortControllerRef, idleVars,
                 oneShots, starts, calls>>

(***************************************************************************)
(* processVideoFrame, up to its await.  cA and cP are the isAnalyzing and  *)
(* isProcessing of the closure that runs; ctx is whether getContext('2d')  *)
(* returns a context.                                                      *)
(***************************************************************************)
\* a gate of half the interval
RateLimitedHalf(t, lastCall) == t - lastCall < MinCallInterval \div 2

\* lines 100-104: the call comes too soon after the last dispatched one
RateLimited(t, lastCall) == t - lastCall < MinCallInterval

Blocked(cA, cP) == ~videoRef \/ ~canvasRef \/ ~cA \/ cP

CaptureOutcome(cA, cP, ctx) ==
  IF Blocked(cA, cP) THEN "guard"
  ELSE IF RateLimited(now, lastApiCallTimeRef) THEN "rateLimited"
  ELSE IF ~ctx THEN "noContext"
  ELSE "dispatched"

\* a flag that only the try block resets
ResetInTryOnly(exit) == exit # "success"

\* isProcessing after the finally block, for each exit of the try statement
ProcessingAtExit(exit) == FALSE

processVideoFrame(cA, cP, ctx) ==
  LET outcome == CaptureOutcome(cA, cP, ctx)
      aborted == Abort(calls, abortControllerRef)
      id == FreshId(Ids(calls))
  IN IF outcome = "dispatched" THEN
       \* the classifier answers before more than env.maxCalls calls pile up
       /\ Cardinality(calls) < env.maxCalls
       /\ Len(attempts) < env.maxDispatch
       /\ isProcessing' = SetState(isProcessing, TRUE)
       /\ calls' = aborted \cup {[id |-> id, aborted |-> FALSE, at |-> now]}
       /\ abortControllerRef' = id
       /\ lastDetectionTime' = SetState(lastDetectionTime, now)
       /\ lastApiCallTimeRef' = now
       /\ attempts' = Append(attempts, now)
     ELSE IF outcome = "noContext" THEN
       \* setIsProcessing(true), the controller swap, return, finally
       /\ isProcessing' = SetState(isProcessing, ProcessingAtExit("noContext"))
       /\ calls' = aborted
       /\ abortControllerRef' = NoHandle
       /\ UNCHANGED <<lastDetectionTime, lastApiCallTimeRef, attempts>>
     ELSE UNCHANGED captureVars

\* a countdown reset by every attempt
CountAlwaysReset(count, outcome) == SetState(count, TimerStart)

\* setTimerCount(3) of a dispatched capture
CountAfterCapture(count, outcome) ==
  IF outcome = "dispatched" THEN SetState(count, TimerStart) ELSE count

(***************************************************************************)
(* processVideoFrame after its await: the classifier answered.             *)
(***************************************************************************)
\* lines 136-156 and the finally block
CallSucceed(c, emotion, score, k1, k2, k3) ==
  /\ c \in calls
  /\ currentEmotion' = SetState(currentEmotion, emotion)
  /\ emotionHistory' = SetState(emotionHistory,
                                AppendEvent(emotionHistory, Event(emotion, score)))
  /\ recorded' = SetState(recorded, Append(recorded, Event(emotion, score)))
  /\ updateMetricsBasedOnEmotion(emotion, k1, k2, k3)
  /\ IF emotion = "stressed" \/ emotion = "sad"
       THEN showEmotionalSupportPopup(emotion)
       ELSE UNCHANGED popupVars
  /\ isProcessing' = SetState(isProcessing, ProcessingAtExit("success"))
  /\ abortControllerRef' = NoHandle
  /\ calls' = calls \ {c}
  /\ last' = Did("success", emotion, FALSE)
  /\ UNCHANGED <<lastDetectionTime, lastApiCallTimeRef, attempts>>
  /\ UNCHANGED <<permVars, isAnalyzing, timerCount, tickVars, surfaceVars,
                 streamVars, idleVars, oneShots, starts>>

\* the label the catch block draws
FallbackEmotion(k) == dummyEmotions[FloorRandom(k, Len(dummyEmotions)) + 1]

\* a catch block that throws the failure on after recording its event
CatchRethrows(exit) == exit = "failure"

\* the promise processVideoFrame returns is rejected: never, because the guard,
\* the rate limit and the missing context leave by a plain return, and the
\* catch block absorbs every failure of the try block and throws nothing itself
CaptureRejects(exit) == FALSE

\* the label forceEmotionUpdate draws
ForcedEmotion(k) == forceDummyEmotions[FloorRandom(k, Len(forceDummyEmotions)) + 1]

\* forceEmotionUpdate, run by the .catch of a trigger with the isAnalyzing of the
\* trigger's closure, on the emotion, the history and the metrics that the
\* rejected capture left behind
forceEmotionUpdate(cA, prevEmotion, prevHistory, prevRecorded, kEmotion, kScore, k1, k2, k3) ==
  LET emotion == ForcedEmotion(kEmotion)
      e == Event(emotion, RandomScore(kScore))
  IN IF ~cA
       THEN /\ currentEmotion' = SetState(currentEmotion, prevEmotion)
            /\ emotionHistory' = SetState(emotionHistory, prevHistory)
            /\ recorded' = SetState(recorded, prevRecorded)
            /\ updateMetricsBasedOnEmotion(prevEmotion, k1, k2, k3)
            /\ last' = Did("failure", prevEmotion, FALSE)
       ELSE /\ currentEmotion' = SetState(currentEmotion, emotion)
            /\ emotionHistory' = SetState(emotionHistory, AppendEvent(prevHistory, e))
            /\ recorded' = SetState(recorded, Append(prevRecorded, e))
            /\ updateMetricsBasedOnEmotion(emotion, k1, k2, k3)
            /\ last' = Did("force", emotion, FALSE)

\* lines 157-172 and the finally block; then the .catch of the trigger (lines
\* 206-209 and 320-322) if the promise is rejected.  The closure that
\* dispatched the call has passed the guard, so its isAnalyzing is true.
CallFail(c, kEmotion, kScore, k1, k2, k3) ==
  LET emotion == FallbackEmotion(kEmotion)
      e == Event(emotion, RandomScore(kScore))
  IN /\ c \in calls
     /\ IF CaptureRejects("failure")
          THEN forceEmotionUpdate(TRUE, emotion, AppendEvent(emotionHistory, e),
                                  Append(recorded, e), kEmotion, kScore, k1, k2, k3)
          ELSE /\ currentEmotion' = SetState(currentEmotion, emotion)
               /\ emotionHistory' = SetState(emotionHistory, AppendEvent(emotionHistory, e))
               /\ recorded' = SetState(recorded, Append(recorded, e))
               /\ updateMetricsBasedOnEmotion(emotion, k1, k2, k3)
               /\ last' = Did("failure", emotion, FALSE)
     /\ isProcessing' = SetState(isProcessing, ProcessingAtExit("failure"))
     /\ abortControllerRef' = NoHandle
     /\ calls' = calls \ {c}
     /\ UNCHANGED <<lastDetectionTime, lastApiCallTimeRef, attempts>>
     /\ UNCHANGED <<popupVars, permVars, isAnalyzing, timerCount, tickVars,
                    surfaceVars, streamVars, idleVars, oneShots, starts>>

(***************************************************************************)
(* The two triggers of processVideoFrame.  Its promise is never rejected,  *)
(* so the .catch(() => forceEmotionUpdate()) of both never runs.           *)
(***************************************************************************)
\* a countdown that runs down to 0 before it starts again
CountDownToZero(prev) == IF prev <= 0 THEN TimerStart ELSE prev - 1

\* the value the updater of updateTimer returns
CountAfterTick(prev) == IF prev <= 1 THEN TimerStart ELSE prev - 1

\* updateTimer, run by the interval t with the closure of the render that set it
Tick(t, ctx) ==
  LET outcome == CaptureOutcome(t.cA, t.cP, ctx)
  IN /\ t \in intervals
     /\ t.due = now
     /\ intervals' = (intervals \ {t}) \cup {[t EXCEPT !.due = now + TickPeriod]}
     /\ IF ~mounted THEN
          /\ UNCHANGED <<timerCount, captureVars>>
          /\ last' = Did("tick", "ignored", FALSE)
        ELSE IF timerCount <= 1 THEN
          /\ processVideoFrame(t.cA, t.cP, ctx)
          /\ timerCount' = CountAfterTick(timerCount)
          /\ last' = Did("tick", outcome, FALSE)
        ELSE
          /\ timerCount' = CountAfterTick(timerCount)
          /\ UNCHANGED captureVars
          /\ last' = Did("tick", "countdown", FALSE)
     /\ UNCHANGED <<timerIntervalRef, emotionVars, metricVars, popupVars, permVars,
                    isAnalyzing, surfaceVars, streamVars, idleVars, oneShots, starts>>

\* the setTimeout callback of startAnalysis; timers of equal delay fire in
\* creation order
OneShot(ctx) ==
  /\ oneShots # <<>>
  /\ Head(oneShots).due = now
  /\ LET t == Head(oneShots)
         outcome == CaptureOutcome(t.cA, t.cP, ctx)
     IN /\ processVideoFrame(t.cA, t.cP, ctx)
        /\ timerCount' = CountAfterCapture(timerCount, outcome)
        /\ last' = Did("oneShot", outcome, FALSE)
  /\ oneShots' = Tail(oneShots)
  /\ UNCHANGED <<tickVars, emotionVars, metricVars, popupVars, permVars,
                 isAnalyzing, surfaceVars, streamVars, idleVars, starts>>

(***************************************************************************)
(* startAnalysis.  An invocation s carries the closure of the render in    *)
(* which the host called it: cMic (micPermission is true), cEmo            *)
(* (currentEmotion is set), cA (isAnalyzing), cP (isProcessing).           *)
(***************************************************************************)
SeedEvent == Event("neutral", SeedScore)

\* the host calls startAnalysis and stopAnalysis in the first env.hostUntil ms
HostActive == now - MountTime <= env.hostUntil

\* one permission is enough
MayAnalyzeEither(hasCamera, hasMic) == hasCamera \/ hasMic

\* hasCamera && hasMic
MayAnalyze(hasCamera, hasMic) == hasCamera /\ hasMic

\* an interval for every start
AlwaysSetInterval(ref) == TRUE

\* if (timerIntervalRef.current === null)
MaySetInterval(ref) == ref = NoHandle

\* lines 302-331, once both permissions are settled
StartTail(s, hasCamera, hasMic, k1, k2, k3) ==
  IF MayAnalyze(hasCamera, hasMic) THEN
    /\ isAnalyzing' = SetState(isAnalyzing, TRUE)
    /\ IF ~s.cEmo
         THEN /\ currentEmotion' = SetState(currentEmotion, "neutral")
              /\ emotionHistory' = SetState(emotionHistory, <<SeedEvent>>)
              /\ recorded' = SetState(recorded, <<SeedEvent>>)
              /\ updateMetricsBasedOnEmotion("neutral", k1, k2, k3)
         ELSE UNCHANGED <<emotionVars, metricVars>>
    /\ oneShots' = Append(oneShots, [due |-> now + OneShotDelay, cA |-> s.cA, cP |-> s.cP])
    /\ IF MaySetInterval(timerIntervalRef)
         THEN LET id == FreshId(Ids(intervals))
              IN /\ intervals' = intervals \cup
                       {[id |-> id, due |-> now + TickPeriod, cA |-> s.cA, cP |-> s.cP]}
                 /\ timerIntervalRef' = id
         ELSE UNCHANGED tickVars
  ELSE UNCHANGED <<isAnalyzing, emotionVars, metricVars, oneShots, tickVars>>

\* the host calls startAnalysis: lines 283-299 and requestCameraPermission up to
\* its await (lines 33-55)
StartBegin ==
  /\ mounted
  /\ "start" \in env.host
  /\ HostActive
  /\ Cardinality(starts) < env.maxStarts
  /\ hostCalls.start < env.maxStartCalls
  /\ hostCalls' = [hostCalls EXCEPT !.start = @ + 1]
  /\ liveStreams' = StopTracks(liveStreams, mediaStreamRef)
  /\ mediaStreamRef' = NoHandle
  /\ starts' = starts \cup
       {[id |-> FreshId(Ids(starts)), pc |-> "camera", hasCamera |-> FALSE, at |-> now,
         cMic |-> (micPermission = "granted"), cEmo |-> (currentEmotion # NoEmotion),
         cA |-> isAnalyzing, cP |-> isProcessing]}
  /\ last' = Did("start", "-", FALSE)
  /\ UNCHANGED <<recorded, attempts, popupTrigger>>
  /\ UNCHANGED <<stateVars, timerIntervalRef, surfaceVars, popupTimeoutRef,
                 lastApiCallTimeRef, abortControllerRef, worldVars, intervals,
                 oneShots, popupTimers, calls>>

\* getUserMedia({video}) settles: the rest of requestCameraPermission, then line
\* 300, and lines 302-331 when the closure's micPermission is already true
CameraResult(s, granted, k1, k2, k3) ==
  /\ s \in starts
  /\ s.pc = "camera"
  /\ granted \in env.camera
  /\ IF granted
       THEN LET id == FreshId(liveStreams \cup {mediaStreamRef})
            IN /\ Cardinality(liveStreams) < env.maxStreams
               /\ cameraPermission' = SetState(cameraPermission, "granted")
               /\ mediaStreamRef' = id
               /\ liveStreams' = liveStreams \cup {id}
       ELSE /\ cameraPermission' = SetState(cameraPermission, "denied")
            /\ UNCHANGED streamVars
  /\ IF s.cMic
       THEN /\ StartTail(s, granted, TRUE, k1, k2, k3)
            /\ starts' = starts \ {s}
            /\ last' = Did("camera", IF MayAnalyze(granted, TRUE) THEN "entered" ELSE "refused",
                           granted)
       ELSE /\ starts' = (starts \ {s}) \cup
                        {[s EXCEPT !.pc = "mic", !.hasCamera = granted, !.at = now]}
            /\ last' = Did("camera", "await", granted)
            /\ UNCHANGED <<isAnalyzing, emotionVars, metricVars, oneShots, tickVars>>
  /\ UNCHANGED <<micPermission, attempts, popupVars, captureVars, timerCount,
                 surfaceVars, idleVars>>

\* getUserMedia({audio}) settles: the rest of requestMicPermission, then lines
\* 302-331
MicResult(s, granted, k1, k2, k3) ==
  /\ s \in starts
  /\ s.pc = "mic"
  /\ granted \in env.mic
  /\ micPermission' = SetState(micPermission, IF granted THEN "granted" ELSE "denied")
  /\ StartTail(s, s.hasCamera, granted, k1, k2, k3)
  /\ starts' = starts \ {s}
  /\ last' = Did("mic", IF MayAnalyze(s.hasCamera, granted) THEN "entered" ELSE "refused",
                 s.hasCamera)
  /\ UNCHANGED <<cameraPermission, streamVars, attempts, popupVars, captureVars,
                 timerCount, surfaceVars, idleVars>>

(***************************************************************************)
(* stopAnalysis and the cleanup of the effect.                             *)
(***************************************************************************)
\* a ref that is used and not nulled
KeptRef(ref) == ref

\* if (ref.current) { ...; ref.current = null }
ClearedRef(ref) == IF ref # NoHandle THEN NoHandle ELSE ref

stopAnalysis ==
  /\ mounted
  /\ "stop" \in env.host
  /\ HostActive
  /\ hostCalls.stop < env.maxStopCalls
  /\ hostCalls' = [hostCalls EXCEPT !.stop = @ + 1]
  /\ isAnalyzing' = FALSE
  /\ intervals' = IF timerIntervalRef # NoHandle
                    THEN ClearTimer(intervals, timerIntervalRef) ELSE intervals
  /\ timerIntervalRef' = ClearedRef(timerIntervalRef)
  /\ liveStreams' = StopTracks(liveStreams, mediaStreamRef)
  /\ mediaStreamRef' = ClearedRef(mediaStreamRef)
  /\ calls' = Abort(calls, abortControllerRef)
  /\ abortControllerRef' = ClearedRef(abortControllerRef)
  /\ last' = Did("stop", "-", FALSE)
  /\ UNCHANGED <<emotionVars, metricVars, popupVars, permVars, timerCount,
                 isProcessing, lastDetectionTime, lastApiCallTimeRef, attempts,
                 surfaceVars, worldVars, oneShots, starts>>

\* the component unmounts: lines 369-385; React then detaches videoRef and
\* canvasRef.  No ref is nulled by the cleanup.
Teardown ==
  /\ mounted
  /\ "teardown" \in env.host
  /\ mounted' = FALSE
  /\ intervals' = ClearTimer(intervals, timerIntervalRef)
  /\ liveStreams' = StopTracks(liveStreams, mediaStreamRef)
  /\ popupTimers' = ClearTimer(popupTimers, popupTimeoutRef)
  /\ calls' = Abort(calls, abortControllerRef)
  /\ videoRef' = FALSE
  /\ canvasRef' = FALSE
  /\ last' = Did("teardown", "-", FALSE)
  /\ UNCHANGED <<stateVars, timerIntervalRef, mediaStreamRef, popupTimeoutRef,
                 lastApiCallTimeRef, abortControllerRef, now, env, hostCalls,
                 oneShots, starts, recorded, attempts, popupTrigger>>

(***************************************************************************)
(* Time.                                                                   *)
(***************************************************************************)
Dues == {t.due : t \in intervals} \cup {t.due : t \in popupTimers}
          \cup {oneShots[i].due : i \in 1..Len(oneShots)}

\* getUserMedia and the classifier answer within env.maxLatency ms
Awaited == {c.at : c \in calls} \cup {s.at : s \in starts}

Advance ==
  /\ \A d \in Dues : d > now
  /\ \A a \in Awaited : now + env.step - a <= env.maxLatency
  /\ now - MountTime < env.horizon
  /\ now' = now + env.step
  /\ last' = Did("advance", "-", FALSE)
  /\ UNCHANGED <<stateVars, refVars, mounted, intervals, oneShots, popupTimers,
                 starts, calls, liveStreams, env, hostCalls, recorded, attempts,
                 popupTrigger>>

(***************************************************************************)
(* Scenarios: the inputs the environment may produce in a behaviour.       *)
(***************************************************************************)
HostCalls == {"start", "stop", "dismiss", "teardown"}

\* every operation, short runs
MainEnv ==
  [labels |-> {"sad", "surprised"}, scores |-> {900}, draws |-> {HighDraw},
   step |-> HalfSecond, horizon |-> MaxSteps * HalfSecond,
   hostUntil |-> HostSteps * HalfSecond, maxLatency |-> HalfSecond,
   maxStarts |-> MaxStarts, maxStartCalls |-> MaxStartCalls,
   maxStopCalls |-> MaxStopCalls, maxCalls |-> MaxCalls, maxDispatch |-> MaxDispatch,
   maxStreams |-> MaxStreams, camera |-> BOOLEAN, mic |-> BOOLEAN,
   contexts |-> BOOLEAN, host |-> HostCalls, surfaces |-> {TRUE}]

\* three calls of startAnalysis right after mount, every permission granted
BurstEnv ==
  [labels |-> {"sad"}, scores |-> {900}, draws |-> {HighDraw},
   step |-> HalfSecond, horizon |-> MaxSteps * HalfSecond,
   hostUntil |-> 0, maxLatency |-> MaxWait * HalfSecond,
   maxStarts |-> MaxStarts, maxStartCalls |-> BurstStarts, maxStopCalls |-> 1,
   maxCalls |-> MaxCalls, maxDispatch |-> MaxDispatch,
   maxStreams |-> MaxStreams, camera |-> {TRUE}, mic |-> {TRUE},
   contexts |-> BOOLEAN, host |-> HostCalls, surfaces |-> {TRUE}]

\* the event the catch block records for the largest draw
HighFallback == [emotion |-> dummyEmotions[Len(dummyEmotions)],
                 score |-> ScoreBase + (HighDraw * ScoreWidth) \div RandomGrain]

\* long runs: everything the host does and every answer happens at once, and
\* the classifier reports what the catch block would draw, so that the
\* history depends on the times of the captures only
HistEnv ==
  [labels |-> {HighFallback.emotion}, scores |-> {HighFallback.score},
   draws |-> {HighDraw}, step |-> TickPeriod, horizon |-> HistSeconds * TickPeriod,
   hostUntil |-> 0, maxLatency |-> 0,
   maxStarts |-> MaxStarts, maxStartCalls |-> MaxStarts, maxStopCalls |-> 1,
   maxCalls |-> 1, maxDispatch |-> HistDispatch,
   maxStreams |-> MaxStreams, camera |-> {TRUE}, mic |-> {TRUE},
   contexts |-> {TRUE}, host |-> HostCalls, surfaces |-> {TRUE}]

\* two popup triggers and the time for their auto-dismiss
PopupEnv ==
  [labels |-> {"stressed", "sad"}, scores |-> {900},
   draws |-> {0}, step |-> TickPeriod, horizon |-> PopupSeconds * TickPeriod,
   hostUntil |-> 0, maxLatency |-> TickPeriod,
   maxStarts |-> MaxStarts, maxStartCalls |-> BurstStarts, maxStopCalls |-> 1,
   maxCalls |-> MaxCalls, maxDispatch |-> MaxDispatch,
   maxStreams |-> MaxStreams, camera |-> {TRUE}, mic |-> {TRUE},
   contexts |-> {TRUE}, host |-> HostCalls, surfaces |-> {TRUE}]

\* a popup trigger, then stopAnalysis or the unmount, then the time for the
\* auto-dismiss
StopEnv ==
  [labels |-> {"sad"}, scores |-> {900},
   draws |-> {0}, step |-> TickPeriod, horizon |-> StopSeconds * TickPeriod,
   hostUntil |-> TickPeriod, maxLatency |-> TickPeriod,
   maxStarts |-> MaxStarts, maxStartCalls |-> MaxStarts, maxStopCalls |-> 1,
   maxCalls |-> 1, maxDispatch |-> MaxDispatch,
   maxStreams |-> MaxStreams, camera |-> {TRUE}, mic |-> {TRUE},
   contexts |-> {TRUE}, host |-> HostCalls, surfaces |-> {TRUE}]

\* sessions that go on for LiveSeconds seconds, every permission granted
LiveEnv ==
  [labels |-> {"sad"}, scores |-> {900},
   draws |-> {0}, step |-> TickPeriod, horizon |-> LiveSeconds * TickPeriod,
   hostUntil |-> 0, maxLatency |-> TickPeriod,
   maxStarts |-> MaxStarts, maxStartCalls |-> MaxStarts, maxStopCalls |-> 1,
   maxCalls |-> MaxCalls, maxDispatch |-> MaxDispatch,
   maxStreams |-> MaxStreams, camera |-> {TRUE}, mic |-> {TRUE},
   contexts |-> BOOLEAN, host |-> HostCalls, surfaces |-> {TRUE}]

\* classifier failures with the smallest and the largest draw
FallbackEnv ==
  [labels |-> {"sad"}, scores |-> {900},
   draws |-> {0, HighDraw}, step |-> HalfSecond,
   horizon |-> FallbackSteps * HalfSecond,
   hostUntil |-> 0, maxLatency |-> HalfSecond,
   maxStarts |-> MaxStarts, maxStartCalls |-> MaxStarts, maxStopCalls |-> 1,
   maxCalls |-> 1, maxDispatch |-> MaxDispatch,
   maxStreams |-> MaxStreams, camera |-> BOOLEAN, mic |-> BOOLEAN,
   contexts |-> {TRUE}, host |-> HostCalls, surfaces |-> {TRUE}]

Init ==
  /\ cameraPermission = "unknown"
  /\ micPermission = "unknown"
  /\ isAnalyzing = FALSE
  /\ currentEmotion = NoEmotion
  /\ emotionHistory = <<>>
  /\ stressLevel = 0
  /\ engagementLevel = 0
  /\ focusLevel = 0
  /\ lastDetectionTime = 0
  /\ showEmotionPopup = FALSE
  /\ popupEmotion = NoEmotion
  /\ timerCount = TimerStart
  /\ isProcessing = FALSE
  /\ timerIntervalRef = NoHandle
  /\ mediaStreamRef = NoHandle
  /\ popupTimeoutRef = NoHandle
  /\ lastApiCallTimeRef = 0
  /\ abortControllerRef = NoHandle
  /\ now = MountTime
  /\ mounted = TRUE
  /\ intervals = {}
  /\ oneShots = <<>>
  /\ popupTimers = {}
  /\ starts = {}
  /\ calls = {}
  /\ liveStreams = {}
  /\ hostCalls = [start |-> 0, stop |-> 0]
  /\ recorded = <<>>
  /\ attempts = <<>>
  /\ popupTrigger = [at |-> 0, emotion |-> NoEmotion, dismissed |-> FALSE,
                     prevAt |-> 0, prevEmotion |-> NoEmotion]
  /\ last = [op |-> "mount", outcome |-> "-", cam |-> FALSE, again |-> FALSE,
             tickAt |-> 0]

\* the host renders the video and the canvas element, or not
InitIn(e) ==
  /\ Init
  /\ env = e
  /\ videoRef \in e.surfaces
  /\ canvasRef \in e.surfaces

\* the steps that can happen before a popup auto-dismiss is due
Step ==
  \/ StartBegin
  \/ \E s \in starts, granted \in BOOLEAN, k1, k2, k3 \in MathRandom :
       CameraResult(s, granted, k1, k2, k3)
  \/ \E s \in starts, granted \in BOOLEAN, k1, k2, k3 \in MathRandom :
       MicResult(s, granted, k1, k2, k3)
  \/ stopAnalysis
  \/ \E t \in intervals, ctx \in env.contexts : Tick(t, ctx)
  \/ \E ctx \in env.contexts : OneShot(ctx)
  \/ \E c \in calls, emotion \in env.labels, score \in env.scores,
        k1, k2, k3 \in MathRandom : CallSucceed(c, emotion, score, k1, k2, k3)
  \/ \E c \in calls, kEmotion, kScore, k1, k2, k3 \in MathRandom :
       CallFail(c, kEmotion, kScore, k1, k2, k3)
  \/ DismissPopup
  \/ Teardown
  \/ Advance

\* every step of the hook and its environment
Next ==
  \/ Step
  \/ \E t \in popupTimers : PopupTimeout(t)

Spec == InitIn(MainEnv) /\ [][Step]_vars

SpecBurst == InitIn(BurstEnv) /\ [][Step]_vars

SpecFallback == InitIn(FallbackEnv) /\ [][Step]_vars

SpecHistory == InitIn(HistEnv) /\ [][Next]_vars

SpecPopup == InitIn(PopupEnv) /\ [][Next]_vars

SpecStop == InitIn(StopEnv) /\ [][Next]_vars

\* what happens without the host: timers, answers and the passing of time
Progress ==
  \/ \E s \in starts, granted \in BOOLEAN, k1, k2, k3 \in MathRandom :
       CameraResult(s, granted, k1, k2, k3)
  \/ \E s \in starts, granted \in BOOLEAN, k1, k2, k3 \in MathRandom :
       MicResult(s, granted, k1, k2, k3)
  \/ \E t \in intervals, ctx \in env.contexts : Tick(t, ctx)
  \/ \E ctx \in env.contexts : OneShot(ctx)
  \/ \E c \in calls, emotion \in env.labels, score \in env.scores,
        k1, k2, k3 \in MathRandom : CallSucceed(c, emotion, score, k1, k2, k3)
  \/ \E c \in calls, kEmotion, kScore, k1, k2, k3 \in MathRandom :
       CallFail(c, kEmotion, kScore, k1, k2, k3)
  \/ Advance

\* the browser runs every due timer and every pending answer arrives, so time
\* goes on to the horizon of the scenario; the host is free to do nothing
SpecLive == InitIn(LiveEnv) /\ [][Step]_vars /\ WF_vars(Progress)

(***************************************************************************)
(* updateMetricsBasedOnEmotion as a function of its argument and of its    *)
(* three draws, applied once to the state after mount.                     *)
(***************************************************************************)
MetricInputs == {forceDummyEmotions[i] : i \in 1..Len(forceDummyEmotions)} \cup {"surprised"}

MetricEnv == [MainEnv EXCEPT !.draws = 0..(RandomGrain - 1), !.labels = MetricInputs]

ApplyMetrics(emotion, k1, k2, k3) ==
  /\ updateMetricsBasedOnEmotion(emotion, k1, k2, k3)
  /\ last' = Did("metrics", emotion, FALSE)
  /\ UNCHANGED <<permVars, isAnalyzing, emotionVars, lastDetectionTime, popupVars,
                 timerCount, isProcessing, refVars, runVars, attempts>>

NextMetrics ==
  /\ last.op = "mount"
  /\ \E emotion \in env.labels, k1, k2, k3 \in MathRandom :
       ApplyMetrics(emotion, k1, k2, k3)

SpecMetrics == InitIn(MetricEnv) /\ [][NextMetrics]_vars

(***************************************************************************)
(* The bands of the three metrics per label, as intervals of integers.     *)
(* ClaimedBands is the table of the specification; Bands differs from it   *)
(* in the focus of "stressed".                                             *)
(***************************************************************************)
ClaimedBands(emotion) ==
  CASE emotion = "stressed" -> [stress |-> 75..99, engagement |-> 15..39, focus |-> 30..59]
    [] emotion = "confused" -> [stress |-> 50..74, engagement |-> 30..69, focus |-> 30..59]
    [] emotion = "sad"      -> [stress |-> 60..79, engagement |-> 20..49, focus |-> 20..39]
    [] emotion = "neutral"  -> [stress |-> 20..39, engagement |-> 50..79, focus |-> 50..69]
    [] emotion = "focused"  -> [stress |-> 10..24, engagement |-> 80..99, focus |-> 85..99]
    [] emotion = "happy"    -> [stress |-> 5..14, engagement |-> 80..99, focus |-> 70..89]
    [] OTHER                -> [stress |-> 15..34, engagement |-> 30..69, focus |-> 30..59]

Bands(emotion) ==
  IF emotion = "stressed"
    THEN [ClaimedBands(emotion) EXCEPT !.focus = 15..34]
    ELSE ClaimedBands(emotion)

InBands(b) ==
  /\ stressLevel \in b.stress
  /\ engagementLevel \in b.engagement
  /\ focusLevel \in b.focus

(***************************************************************************)
(* C1.  The emotion history holds at most 12 events: the most recent       *)
(* min(n, 12) of the n events recorded since the seed, oldest first.       *)
(***************************************************************************)
C1_HistoryIsRecentWindow ==
  LET n == Len(recorded)
      m == Min(n, HistoryLimit)
  IN /\ Len(emotionHistory) = m
     /\ Len(emotionHistory) <= HistoryLimit
     /\ \A i \in 1..m : emotionHistory[i] = recorded[n - m + i]
     /\ \A i \in 1..(m - 1) : emotionHistory[i].timestamp <= emotionHistory[i + 1].timestamp

C1_Witness ==
  /\ Len(recorded) > HistoryLimit
  /\ Len(emotionHistory) = HistoryLimit
  /\ emotionHistory[1] # recorded[1]
  /\ emotionHistory[HistoryLimit] = recorded[Len(recorded)]

(***************************************************************************)
(* C5.  When a dispatched classifier call fails, exactly one event is      *)
(* appended to the history and becomes the current emotion; its label is   *)
(* one of the seven fallback labels, its confidence lies in [0.7, 1.0),    *)
(* the metrics are recomputed for that label, and isAnalyzing and the tick *)
(* timer are left unchanged.                                               *)
(***************************************************************************)
C5_FailureStillRecords ==
  [][(last'.op = "failure" /\ mounted) =>
       LET e == emotionHistory'[Len(emotionHistory')]
       IN /\ Len(recorded') = Len(recorded) + 1
          /\ Len(emotionHistory') = Min(Len(emotionHistory) + 1, HistoryLimit)
          /\ e = recorded'[Len(recorded')]
          /\ \A i \in 1..(Len(emotionHistory') - 1) :
               emotionHistory'[i] =
                 emotionHistory[i + Len(emotionHistory) + 1 - Len(emotionHistory')]
          /\ currentEmotion' = e.emotion
          /\ e.emotion \in {forceDummyEmotions[i] : i \in 1..Len(forceDummyEmotions)}
          /\ e.score >= 700 /\ e.score < 1000
          /\ e.timestamp = now
          /\ stressLevel' \in Bands(e.emotion).stress
          /\ engagementLevel' \in Bands(e.emotion).engagement
          /\ focusLevel' \in Bands(e.emotion).focus
          /\ UNCHANGED <<isAnalyzing, intervals, timerIntervalRef>>]_vars

C5_Witness ==
  /\ last.op = "failure"
  /\ mounted
  /\ isAnalyzing
  /\ intervals # {}
  /\ Len(emotionHistory) = 2
  /\ currentEmotion = "stressed"
  /\ emotionHistory[2].score > 900

(***************************************************************************)
(* C7.  A popup trigger less than 8000 ms after another one cancels the    *)
(* pending auto-dismiss: at most one auto-dismiss is pending, it is the    *)
(* one of the latest trigger, the popup stays visible with the latest      *)
(* emotion, and it is hidden exactly 8000 ms after the latest trigger.     *)
(***************************************************************************)
C7_PopupRestarts ==
  /\ Cardinality(popupTimers) <= 1
  /\ \A t \in popupTimers :
       /\ t.id = popupTimeoutRef
       /\ t.due = popupTrigger.at + PopupDelay
  /\ (mounted /\ popupTimers # {} /\ ~popupTrigger.dismissed) =>
       /\ showEmotionPopup
       /\ popupEmotion = popupTrigger.emotion
  /\ last.op = "popupTimeout" =>
       /\ now = popupTrigger.at + PopupDelay
       /\ popupTimers = {}
       /\ mounted => ~showEmotionPopup

C7_Witness ==
  /\ last.op = "popupTimeout"
  /\ mounted
  /\ ~popupTrigger.dismissed
  /\ popupTrigger.emotion = "sad"
  /\ popupEmotion = "sad"
  /\ popupTrigger.prevEmotion = "stressed"
  /\ popupTrigger.at > popupTrigger.prevAt
  /\ popupTrigger.at - popupTrigger.prevAt < PopupDelay
  /\ now = popupTrigger.at + PopupDelay

\* the moment the first trigger's auto-dismiss would have fired
C7_WitnessSurvives ==
  /\ mounted
  /\ showEmotionPopup
  /\ popupTrigger.emotion = "sad"
  /\ popupTrigger.prevEmotion = "stressed"
  /\ popupTrigger.at > popupTrigger.prevAt
  /\ now = popupTrigger.prevAt + PopupDelay

(***************************************************************************)
(* C9.  updateMetricsBasedOnEmotion puts each metric inside the band of    *)
(* the label.  C9_ClaimedBands is the statement with the table as the      *)
(* specification gives it; C9_MetricsInBands has 15..34 for the focus of   *)
(* "stressed".                                                             *)
(***************************************************************************)
C9_ClaimedBands == last.op = "metrics" => InBands(ClaimedBands(last.outcome))

C9_MetricsInBands == last.op = "metrics" => InBands(Bands(last.outcome))

C9_Witness ==
  /\ last.op = "metrics"
  /\ last.outcome = "stressed"
  /\ stressLevel = 99
  /\ engagementLevel = 39
  /\ focusLevel = 34

C9_WitnessOther ==
  /\ last.op = "metrics"
  /\ last.outcome = "surprised"
  /\ stressLevel = 15
  /\ engagementLevel = 69
  /\ focusLevel = 30

(***************************************************************************)
(* C2.  isAnalyzing == false implies that the tick timer is stopped, the   *)
(* capture stream is released and no request token is held, also after a   *)
(* start() in which the camera is granted and the microphone denied.       *)
(* Stated for the states in which no startAnalysis call is under way.      *)
(***************************************************************************)
C2_IdleImpliesReleased ==
  (mounted /\ starts = {} /\ ~isAnalyzing) =>
    /\ intervals = {}
    /\ timerIntervalRef = NoHandle
    /\ mediaStreamRef = NoHandle
    /\ abortControllerRef = NoHandle

(***************************************************************************)
(* C3.  The timestamps of any two dispatched classifier calls are at least *)
(* 1000 ms apart, whatever triggered them and across stop/start cycles.    *)
(***************************************************************************)
C3_AttemptsSpaced ==
  /\ \A i, j \in 1..Len(attempts) :
       i < j => attempts[j] - attempts[i] >= MinCallInterval
  /\ attempts # <<>> => lastApiCallTimeRef = attempts[Len(attempts)]

C3_Witness ==
  /\ Len(attempts) >= 2
  /\ attempts[2] - attempts[1] = MinCallInterval

C6_CameraDeniedStaysIdle ==
  [][/\ (last'.op = "camera" /\ ~last'.cam /\ mounted) => cameraPermission' = "denied"
     /\ (last'.op \in {"camera", "mic"} /\ ~last'.cam) =>
          UNCHANGED <<isAnalyzing, intervals, timerIntervalRef, oneShots>>]_vars

C6_Witness ==
  /\ last.op = "mic"
  /\ ~last.cam
  /\ micPermission = "granted"
  /\ cameraPermission = "denied"
  /\ ~isAnalyzing

(***************************************************************************)
(* C8.  After stop() the stream, the tick timer handle and the token are   *)
(* null and isAnalyzing is false; a second stop() changes nothing.         *)
(***************************************************************************)
C8_StopIdempotent ==
  [][last'.op = "stop" =>
       /\ ~isAnalyzing'
       /\ mediaStreamRef' = NoHandle
       /\ timerIntervalRef' = NoHandle
       /\ abortControllerRef' = NoHandle
       /\ intervals' = {}
       /\ last.op = "stop" =>
            UNCHANGED <<stateVars, refVars, mounted, intervals, oneShots,
                        popupTimers, starts, calls, liveStreams>>]_vars

C8_Witness ==
  /\ last.op = "stop"
  /\ last.again

\* a stop() that had a timer, a stream and a token to release
C8_WitnessBusy ==
  /\ last.op = "stop"
  /\ calls # {}
  /\ \A c \in calls : c.aborted

(***************************************************************************)
(* C10.  At most one classifier call is outstanding at any time.           *)
(***************************************************************************)
C10_SingleFlight == Cardinality(calls) <= 1

(***************************************************************************)
(* C11.  isAnalyzing is true only while the tick timer is active and the   *)
(* camera stream is held, under any interleaving of start(), stop() and    *)
(* the permission results.  Stated for the states in which no              *)
(* startAnalysis call is under way.                                        *)
(***************************************************************************)
C11_AnalyzingImpliesHeld ==
  (mounted /\ starts = {} /\ isAnalyzing) =>
    /\ timerIntervalRef # NoHandle
    /\ \E t \in intervals : t.id = timerIntervalRef
    /\ mediaStreamRef # NoHandle
    /\ mediaStreamRef \in liveStreams

(***************************************************************************)
(* C12.  A start() that enters analyzing with the current emotion unset    *)
(* seeds the state with the single event (neutral, 0.8): the current       *)
(* emotion is neutral, the history is that event and the metrics are in    *)
(* the bands of neutral; with the current emotion set, it leaves the       *)
(* current emotion, the history and the metrics unchanged.                 *)
(***************************************************************************)
C12_SeedOnlyWhenUnset ==
  [][(last'.op \in {"camera", "mic"} /\ last'.outcome = "entered" /\ mounted) =>
       IF currentEmotion = NoEmotion
         THEN /\ currentEmotion' = "neutral"
              /\ emotionHistory' =
                   <<[emotion |-> "neutral", timestamp |-> now, score |-> SeedScore]>>
              /\ stressLevel' \in Bands("neutral").stress
              /\ engagementLevel' \in Bands("neutral").engagement
              /\ focusLevel' \in Bands("neutral").focus
         ELSE UNCHANGED <<currentEmotion, emotionHistory, metricVars>>]_vars

(***************************************************************************)
(* C13.  Every recorded event with emotion stressed or sad, from the       *)
(* classifier, from the fallback of a failed call or from                  *)
(* forceEmotionUpdate, makes the popup visible with that emotion; an event *)
(* with another emotion never makes it visible.                            *)
(***************************************************************************)
C13_TriggerSetShowsPopup ==
  [][(recorded' # recorded /\ mounted) =>
       LET e == recorded'[Len(recorded')]
       IN IF e.emotion \in {"stressed", "sad"}
            THEN showEmotionPopup' /\ popupEmotion' = e.emotion
            ELSE showEmotionPopup' => showEmotionPopup]_vars

(***************************************************************************)
(* C14.  stop() and the teardown cancel a pending popup auto-dismiss: none *)
(* is pending after either of them, stop() leaves the handle null, and the *)
(* auto-dismiss does not hide the popup once the session has stopped.      *)
(***************************************************************************)
C14_StopCancelsAutoDismiss ==
  [][/\ last'.op \in {"stop", "teardown"} => popupTimers' = {}
     /\ last'.op = "stop" => popupTimeoutRef' = NoHandle
     /\ (last'.op = "popupTimeout" /\ showEmotionPopup /\ ~showEmotionPopup') =>
          isAnalyzing]_vars

(***************************************************************************)
(* C15.  While the session stays analyzing with the video and the canvas   *)
(* available, and the ticks and the classifier answers keep coming, new    *)
(* events keep being appended to the history, also when every call fails.  *)
(* Stated for a run of bounded length: from every state in which the       *)
(* session is analyzing and a full countdown and the answer of a call      *)
(* still fit into the run, the run leads to a step that appends the event  *)
(* of a classifier answer or of its fallback, or the session ends.         *)
(***************************************************************************)
C15_EventsKeepComing ==
  (/\ isAnalyzing /\ mounted /\ videoRef /\ canvasRef
   /\ now + TimerStart * TickPeriod + env.maxLatency <= MountTime + env.horizon)
    ~> (last.op \in {"success", "failure"} \/ ~isAnalyzing \/ ~mounted)

(***************************************************************************)
(* C16.  The countdown is an integer in 0..3.  A tick decrements it by one *)
(* without attempting a capture, or, when it would reach 0, attempts a     *)
(* capture and sets it to 3: after a reset the tick-driven attempt is on   *)
(* the third tick and on no other.  A dispatched capture sets it to 3.     *)
(***************************************************************************)
C16_CountdownCycle ==
  [][/\ timerCount \in 0..TimerStart /\ timerCount' \in 0..TimerStart
     /\ (last'.op = "tick" /\ mounted) =>
          IF timerCount - 1 <= 0
            THEN /\ last'.outcome \in {"guard", "rateLimited", "noContext", "dispatched"}
                 /\ timerCount' = TimerStart
            ELSE /\ last'.outcome = "countdown"
                 /\ timerCount' = timerCount - 1
                 /\ UNCHANGED captureVars
     /\ (last'.outcome = "dispatched" /\ mounted) => timerCount' = TimerStart
     /\ last'.op \notin {"tick", "oneShot"} => UNCHANGED timerCount]_vars

\* the third tick after a reset dispatches a capture
C16_Witness ==
  /\ last.op = "tick"
  /\ last.outcome = "dispatched"
  /\ timerCount = TimerStart
  /\ Len(attempts) = 2
  /\ attempts[2] - attempts[1] = TimerStart * TickPeriod

(***************************************************************************)
(* C17.  Every capture that sets isProcessing sets it back to false and    *)
(* clears the token when it completes, on its three exits (classifier      *)
(* success, classifier failure, no drawing context); it does complete; and *)
(* isProcessing is false whenever no capture is under way.                 *)
(***************************************************************************)
C17_ProcessingIsReset ==
  /\ []((mounted /\ calls = {}) => ~isProcessing)
  /\ [][((last'.op \in {"success", "failure"} \/ last'.outcome = "noContext") /\ mounted) =>
          ~isProcessing' /\ abortControllerRef' = NoHandle]_vars
  /\ (isProcessing /\ mounted) ~> (~isProcessing \/ ~mounted)

C17_Witness ==
  /\ last.op = "failure"
  /\ mounted
  /\ calls = {}
  /\ ~isProcessing
  /\ abortControllerRef = NoHandle

\* the exit without a drawing context
C17_WitnessNoContext ==
  /\ last.outcome = "noContext"
  /\ mounted
  /\ ~isProcessing
  /\ abortControllerRef = NoHandle

(***************************************************************************)
(* C18.  At most one camera stream is live at any time, and a live stream  *)
(* is the one the session refers to.                                       *)
(***************************************************************************)
C18_OneLiveStream ==
  /\ Cardinality(liveStreams) <= 1
  /\ liveStreams \subseteq {mediaStreamRef}

(***************************************************************************)
(* C19.  After any sequence of start() and stop() calls at most one tick   *)
(* timer is active, and it is the one timerIntervalRef holds; two runs of  *)
(* updateTimer are at least a second apart; stop() leaves none active.     *)
(***************************************************************************)
C19_OneTickTimer ==
  [][/\ Cardinality(intervals') <= 1
     /\ \A t \in intervals' : t.id = timerIntervalRef'
     /\ (last'.op = "tick" /\ last.tickAt # 0) => now - last.tickAt >= TickPeriod
     /\ last'.op = "stop" => intervals' = {} /\ timerIntervalRef' = NoHandle]_vars

\* a second start() enters while the timer of the first is active
C19_Witness ==
  /\ last.outcome = "entered"
  /\ hostCalls = [start |-> 2, stop |-> 0]
  /\ Len(oneShots) = 2
  /\ isAnalyzing
  /\ Cardinality(intervals) = 1

\* stop() cancels a timer that has run, and the next one runs a second later
C19_WitnessRestart ==
  /\ last.op = "tick"
  /\ hostCalls.stop >= 1
  /\ now - MountTime > TickPeriod

====
